---- MODULE Spec2Model ----
(***************************************************************************)
(* MyStudyPlanner: the client-side store of src/components/App.tsx.        *)
(* Subjects, Tasks and StudySessions held in React state, hydrated from    *)
(* and persisted to localStorage, with the retention sweep of completed    *)
(* tasks.  JavaScript values are modelled as tagged records so that        *)
(* undefined, booleans, strings and Dates stay distinguishable.            *)
(***************************************************************************)
EXTENDS Integers, Sequences, FiniteSets, TLC

VARIABLES
  mode,           \* App prop: "demo" or "app"
  storage,        \* localStorage: storage key -> raw value (or Null)
  now,            \* the wall clock, Date.now(), in milliseconds
  subjects,       \* React state: Subject[]
  tasks,          \* React state: Task[]
  studySessions,  \* React state: StudySession[]
  hydrated,       \* the ref hydrated.current
  pending,        \* state updates queued by the hydration effect, not yet rendered
  pc,             \* where the component is in its mount / render / effect cycle
  lastOp,         \* the event being processed (its effects not yet run) and its id
  ops             \* number of user events handled so far

vars == <<mode, storage, now, subjects, tasks, studySessions, hydrated, pending, pc, lastOp, ops>>

(***************************** bounds **************************************)
\* user events (store operations, clear, reload) in one run
MaxOps == 3

(************************** JavaScript values ******************************)
Undefined == [kind |-> "undefined"]
Null == [kind |-> "null"]
Bool(b) == [kind |-> "boolean", val |-> b]
Str(s) == [kind |-> "string", text |-> s]
Chars(cs) == [kind |-> "string", chars |-> cs]
Num(n) == [kind |-> "number", val |-> n]
Arr(items) == [kind |-> "array", items |-> items]

\* Date.getTime() of an Invalid Date
NaN == 0 - 1
DateOf(ms) == [kind |-> "Date", time |-> ms]
\* the string Date.prototype.toISOString produces for the time value ms;
\* IsoString(NaN) stands for a string that Date cannot parse
IsoString(ms) == [kind |-> "string", iso |-> ms]

Truthy(v) ==
  CASE v.kind = "undefined" -> FALSE
    [] v.kind = "null" -> FALSE
    [] v.kind = "boolean" -> v.val
    [] v.kind = "number" -> v.val # 0
    [] v.kind = "string" ->
         IF "text" \in DOMAIN v THEN v.text # ""
         ELSE IF "chars" \in DOMAIN v THEN v.chars # <<>>
         ELSE TRUE
    [] OTHER -> TRUE

Nullish(v) == v.kind \in {"undefined", "null"}

\* !x on an optional boolean
Not(v) == Bool(~Truthy(v))

Map(f(_), seq) == [i \in DOMAIN seq |-> f(seq[i])]
Filter(seq, keep(_)) == SelectSeq(seq, keep)

\* new Date(value)
NewDate(v) ==
  IF v.kind = "string" /\ "iso" \in DOMAIN v THEN DateOf(v.iso)
  ELSE IF v.kind = "Date" THEN DateOf(v.time)
  ELSE DateOf(NaN)

\* String.prototype.trim on a string given as its characters
RECURSIVE TrimStart(_)
TrimStart(cs) == IF cs # <<>> /\ Head(cs) = " " THEN TrimStart(Tail(cs)) ELSE cs
RECURSIVE TrimEnd(_)
TrimEnd(cs) ==
  IF cs # <<>> /\ cs[Len(cs)] = " " THEN TrimEnd(SubSeq(cs, 1, Len(cs) - 1)) ELSE cs
Trim(cs) == TrimEnd(TrimStart(cs))

(***************************** constants ***********************************)
REAL_STORAGE_KEY == "mystudyplanner-data"
DEMO_STORAGE_KEY == "mystudyplanner-demo"
HOUR_MS == 60 * 60 * 1000
DAY_MS == 24 * HOUR_MS
AUTO_DELETE_COMPLETED_AFTER_MS == 24 * 60 * 60 * 1000

Modes == {"demo", "app"}
StorageKeys == {REAL_STORAGE_KEY, DEMO_STORAGE_KEY}
\* one key shared by both modes
storageKey_Shared(m) == REAL_STORAGE_KEY

storageKey(m) == IF m = "demo" THEN DEMO_STORAGE_KEY ELSE REAL_STORAGE_KEY

defaultSubjects ==
  << [id |-> "1", name |-> "Mathematics", color |-> "#6B9BC3"],
     [id |-> "2", name |-> "Physics", color |-> "#9B7FA8"],
     [id |-> "3", name |-> "Chemistry", color |-> "#C4956E"],
     [id |-> "4", name |-> "English", color |-> "#8B73A0"],
     [id |-> "5", name |-> "History", color |-> "#B87B7B"] >>

\* a Task object literal without completion fields
TaskLit(id, title, subjectId, dueDate, type) ==
  [id |-> id, title |-> title, subjectId |-> subjectId, dueDate |-> dueDate,
   type |-> type, completed |-> Undefined, completedAt |-> Undefined]

\* makeDefaultData(), evaluated when the clock reads t
makeDefaultData(t) ==
  [subjects |-> defaultSubjects,
   tasks |->
     << TaskLit("t1", "Read pages 120-145", "5", DateOf(t + DAY_MS), "task"),
        TaskLit("t2", "Lab Report", "3", DateOf(t + 3 * DAY_MS), "assignment"),
        TaskLit("t3", "Complete Chapter 5 Review", "1", DateOf(t + 5 * DAY_MS), "assignment"),
        TaskLit("t4", "Midterm Exam", "2", DateOf(t + 7 * DAY_MS), "exam") >>,
   studySessions |->
     << [id |-> "ss1", subjectId |-> "1", title |-> Chars(<<"C", "5">>),
         date |-> DateOf(t), startTime |-> "4:00 PM", duration |-> "60 min",
         linkedTaskId |-> Str("t3"), completed |-> Bool(FALSE),
         completedAt |-> Undefined] >>]

\* the state the component falls back to: the demo data or the empty app state
Seed(m, t) ==
  IF m = "demo" THEN makeDefaultData(t)
  ELSE [subjects |-> defaultSubjects, tasks |-> <<>>, studySessions |-> <<>>]

\* the useState initial values
InitialState == [subjects |-> defaultSubjects, tasks |-> <<>>, studySessions |-> <<>>]

(*************************** retention sweep *******************************)
\* a retention test that still keeps a task aged exactly the window
WithinRetention_Inclusive(t, clock) ==
  /\ t.completedAt.time # NaN
  /\ clock - t.completedAt.time <= AUTO_DELETE_COMPLETED_AFTER_MS

\* now - t.completedAt.getTime() < AUTO_DELETE_COMPLETED_AFTER_MS,
\* false when the time value is NaN
WithinRetention(t, clock) ==
  /\ t.completedAt.time # NaN
  /\ clock - t.completedAt.time < AUTO_DELETE_COMPLETED_AFTER_MS

KeptBySweep(t, clock) ==
  IF ~Truthy(t.completed) \/ ~Truthy(t.completedAt) THEN TRUE
  ELSE WithinRetention(t, clock)

\* a sweep that removes only the first expired task it meets
pruneAutoDeletedCompletedTasks_FirstOnly(input, clock) ==
  LET expired == {i \in DOMAIN input : ~KeptBySweep(input[i], clock)} IN
  IF expired = {} THEN input
  ELSE LET first == CHOOSE i \in expired : \A j \in expired : i <= j IN
       SubSeq(input, 1, first - 1) \o SubSeq(input, first + 1, Len(input))

pruneAutoDeletedCompletedTasks(input, clock) ==
  Filter(input, LAMBDA t : KeptBySweep(t, clock))

(**************************** store handlers *******************************)
\* Each handler is the state transformer its setState updaters amount to:
\* st is the record of the three collections, the result the next state.

\* Date.now().toString()
NewId(clock) == ToString(clock)

handleAddSubject(st, name, color, clock) ==
  [st EXCEPT !.subjects = Append(@, [id |-> NewId(clock), name |-> name, color |-> color])]

handleUpdateSubject(st, id, name, color) ==
  [st EXCEPT !.subjects =
     Map(LAMBDA s : IF s.id = id THEN [s EXCEPT !.name = name, !.color = color] ELSE s, @)]

\* a delete that removes the subject and leaves its tasks and sessions
handleDeleteSubject_SubjectOnly(st, id) ==
  [st EXCEPT !.subjects = Filter(@, LAMBDA s : s.id # id)]

\* a cascade that forgets the study sessions
handleDeleteSubject_TasksOnly(st, id) ==
  [subjects |-> Filter(st.subjects, LAMBDA s : s.id # id),
   tasks |-> Filter(st.tasks, LAMBDA t : t.subjectId # id),
   studySessions |-> st.studySessions]

handleDeleteSubject(st, id) ==
  [subjects |-> Filter(st.subjects, LAMBDA s : s.id # id),
   tasks |-> Filter(st.tasks, LAMBDA t : t.subjectId # id),
   studySessions |-> Filter(st.studySessions, LAMBDA s : s.subjectId # id)]

\* t: the payload (a Task without id)
handleAddTask(st, t, clock) ==
  [st EXCEPT !.tasks = Append(@, [t EXCEPT !.id = NewId(clock)])]

\* an update that adds the task when no task carries the id
handleUpdateTask_Upsert(st, id, t) ==
  IF \E i \in DOMAIN st.tasks : st.tasks[i].id = id
  THEN [st EXCEPT !.tasks = Map(LAMBDA x : IF x.id = id THEN [t EXCEPT !.id = id] ELSE x, @)]
  ELSE [st EXCEPT !.tasks = Append(@, [t EXCEPT !.id = id])]

handleUpdateTask(st, id, t) ==
  [st EXCEPT !.tasks = Map(LAMBDA x : IF x.id = id THEN [t EXCEPT !.id = id] ELSE x, @)]

\* a delete that cascades to the linked sessions instead of unlinking them
handleDeleteTask_Cascade(st, id) ==
  [st EXCEPT
     !.tasks = Filter(@, LAMBDA t : t.id # id),
     !.studySessions = Filter(@, LAMBDA s : s.linkedTaskId # Str(id))]

handleDeleteTask(st, id) ==
  [st EXCEPT
     !.tasks = Filter(@, LAMBDA t : t.id # id),
     !.studySessions =
       Map(LAMBDA s : IF s.linkedTaskId = Str(id)
                      THEN [s EXCEPT !.linkedTaskId = Undefined] ELSE s, @)]

toggleTaskCompleted(st, id, clock) ==
  [st EXCEPT !.tasks =
     Map(LAMBDA t : IF t.id = id
                    THEN [t EXCEPT !.completed = Not(t.completed),
                                   !.completedAt = DateOf(clock)]
                    ELSE t, @)]

handleAddStudySession(st, s, clock) ==
  [st EXCEPT !.studySessions =
     Append(@, [s EXCEPT !.id = NewId(clock), !.completed = Bool(FALSE)])]

handleUpdateStudySession(st, id, s) ==
  [st EXCEPT !.studySessions =
     Map(LAMBDA x : IF x.id = id THEN [s EXCEPT !.id = id] ELSE x, @)]

handleDeleteStudySession(st, id) ==
  [st EXCEPT !.studySessions = Filter(@, LAMBDA s : s.id # id)]

handleToggleSessionCompleted(st, id, clock) ==
  [st EXCEPT !.studySessions =
     Map(LAMBDA s : IF s.id = id
                    THEN [s EXCEPT !.completed = Not(s.completed),
                                   !.completedAt = DateOf(clock)]
                    ELSE s, @)]

(*************************** persistence codec *****************************)
\* Date.prototype.toJSON: the ISO string, or null for an Invalid Date
DateToJSON(d) ==
  IF d.kind # "Date" THEN d
  ELSE IF d.time = NaN THEN Null ELSE IsoString(d.time)

TaskToJSON(t) ==
  [t EXCEPT !.dueDate = DateToJSON(@), !.completedAt = DateToJSON(@)]

SessionToJSON(x) ==
  [x EXCEPT !.date = DateToJSON(@), !.completedAt = DateToJSON(@)]

Obj(ss, ts, xs) == [kind |-> "object", subjects |-> ss, tasks |-> ts, studySessions |-> xs]

\* JSON.stringify({ subjects, tasks, studySessions }): the text, kept as the
\* document it encodes (properties holding undefined are left out, which the
\* fixed-domain records show as Undefined)
JSONstringify(st) ==
  [kind |-> "string",
   json |-> Obj(Arr(st.subjects), Arr(Map(TaskToJSON, st.tasks)),
                Arr(Map(SessionToJSON, st.studySessions)))]

\* a stored text that is not JSON
Garbage == [kind |-> "string", garbage |-> TRUE]

\* JSON.parse(raw): the document, or a SyntaxError
JSONparse(raw) ==
  IF raw.kind = "string" /\ "json" \in DOMAIN raw
  THEN [threw |-> FALSE, value |-> raw.json]
  ELSE [threw |-> TRUE, value |-> Undefined]

\* parsed.<field>
Prop(parsed, field) == IF parsed.kind = "object" THEN parsed[field] ELSE Undefined

PLACEHOLDER_TITLE == <<"S", "t", "u", "d", "y", " ", "s", "e", "s", "s", "i", "o", "n">>

\* a tasks map callback that forgets to rebuild completedAt
HydrateTask_NoCompletedAt(t, clock) ==
  [t EXCEPT
     !.dueDate = IF Truthy(t.dueDate) THEN NewDate(t.dueDate) ELSE DateOf(clock),
     !.completedAt = Undefined]

\* the object the tasks map callback builds for the stored task t
HydrateTask(t, clock) ==
  [t EXCEPT
     !.dueDate = IF Truthy(t.dueDate) THEN NewDate(t.dueDate) ELSE DateOf(clock),
     !.completedAt = IF Truthy(t.completedAt) THEN NewDate(t.completedAt) ELSE Undefined]

\* s?.title?.trim() throws when title is neither nullish nor a string
TitleTrimThrows(x) == ~Nullish(x.title) /\ x.title.kind # "string"

\* a title rule that only fills in a missing title
HydrateTitle_OnlyMissing(title) ==
  IF Nullish(title) THEN Chars(PLACEHOLDER_TITLE) ELSE Chars(Trim(title.chars))

\* s?.title?.trim() || "Study session"
HydrateTitle(title) ==
  IF Nullish(title) THEN Chars(PLACEHOLDER_TITLE)
  ELSE IF Trim(title.chars) # <<>> THEN Chars(Trim(title.chars))
  ELSE Chars(PLACEHOLDER_TITLE)

\* the object the studySessions map callback builds for the stored session x
HydrateSession(x, clock) ==
  [x EXCEPT
     !.title = HydrateTitle(x.title),
     !.date = IF Truthy(x.date) THEN NewDate(x.date) ELSE DateOf(clock),
     !.completedAt = IF Truthy(x.completedAt) THEN NewDate(x.completedAt) ELSE Undefined]

\* (v ?? []).map(...) throws when v is neither nullish nor an array
MapThrows(v) == ~Nullish(v) /\ v.kind # "array"
ItemsOrEmpty(v) == IF Nullish(v) THEN <<>> ELSE v.items

\* a loader that leaves the subjects empty when the field is missing
LoadedSubjects_Empty(ps) == IF ps.kind = "array" THEN ps.items ELSE <<>>

\* Array.isArray(parsed.subjects) ? parsed.subjects : defaultSubjects
LoadedSubjects(ps) == IF ps.kind = "array" THEN ps.items ELSE defaultSubjects

\* The try block of the hydration effect: the queue q of state updates after
\* the setSubjects / setTasks / setStudySessions calls that were reached, and
\* whether an exception left the block early.
HydrationTry(raw, clock, q) ==
  LET p == JSONparse(raw) IN
  IF p.threw \/ Nullish(p.value) THEN [threw |-> TRUE, q |-> q]
  ELSE
    LET ps == Prop(p.value, "subjects")
        pt == Prop(p.value, "tasks")
        px == Prop(p.value, "studySessions")
        q1 == [q EXCEPT !.subjects = LoadedSubjects(ps)]
    IN
    IF MapThrows(pt) THEN [threw |-> TRUE, q |-> q1]
    ELSE
      LET q2 == [q1 EXCEPT !.tasks =
                   pruneAutoDeletedCompletedTasks(
                     Map(LAMBDA t : HydrateTask(t, clock), ItemsOrEmpty(pt)), clock)]
      IN
      IF MapThrows(px) \/ (\E i \in DOMAIN ItemsOrEmpty(px) : TitleTrimThrows(ItemsOrEmpty(px)[i]))
      THEN [threw |-> TRUE, q |-> q2]
      ELSE [threw |-> FALSE,
            q |-> [q2 EXCEPT !.studySessions =
                     Map(LAMBDA x : HydrateSession(x, clock), ItemsOrEmpty(px))]]

\* a catch block that only reports the failure
HydrationCatch_LogOnly(q, m, clock) == q

\* the catch block: all three collections are set to the mode's seed
HydrationCatch(q, m, clock) ==
  IF m = "demo"
  THEN LET seeded == makeDefaultData(clock) IN
       [q EXCEPT !.subjects = seeded.subjects, !.tasks = seeded.tasks,
                 !.studySessions = seeded.studySessions]
  ELSE [q EXCEPT !.subjects = defaultSubjects, !.tasks = <<>>, !.studySessions = <<>>]

\* a first run that seeds the demo data whatever the mode
HydrationSeed_AlwaysDemo(q, m, clock) ==
  LET seeded == makeDefaultData(clock) IN
  [q EXCEPT !.subjects = seeded.subjects, !.tasks = seeded.tasks,
            !.studySessions = seeded.studySessions]

\* the early returns for a missing value under the storage key
HydrationSeed(q, m, clock) ==
  IF m = "demo"
  THEN LET seeded == makeDefaultData(clock) IN
       [q EXCEPT !.subjects = seeded.subjects, !.tasks = seeded.tasks,
                 !.studySessions = seeded.studySessions]
  ELSE [q EXCEPT !.subjects = defaultSubjects, !.tasks = <<>>, !.studySessions = <<>>]

\* the whole hydration effect: the state updates it queues
Hydrate(raw, m, clock, q) ==
  IF ~Truthy(raw) THEN HydrationSeed(q, m, clock)
  ELSE LET r == HydrationTry(raw, clock, q) IN
       IF r.threw THEN HydrationCatch(r.q, m, clock) ELSE r.q

(**************************** duration parser ******************************)
\* A duration is a JavaScript string, given as the sequence of its characters.
Digits == {"0", "1", "2", "3", "4", "5", "6", "7", "8", "9"}
LowerCase ==
  <<"a", "b", "c", "d", "e", "f", "g", "h", "i", "j", "k", "l", "m",
    "n", "o", "p", "q", "r", "s", "t", "u", "v", "w", "x", "y", "z">>
UpperCase ==
  <<"A", "B", "C", "D", "E", "F", "G", "H", "I", "J", "K", "L", "M",
    "N", "O", "P", "Q", "R", "S", "T", "U", "V", "W", "X", "Y", "Z">>

\* String.prototype.toLowerCase
ToLowerCase(cs) ==
  [i \in DOMAIN cs |->
     IF \E k \in DOMAIN UpperCase : UpperCase[k] = cs[i]
     THEN LowerCase[CHOOSE k \in DOMAIN UpperCase : UpperCase[k] = cs[i]]
     ELSE cs[i]]

\* \w of a regular expression
IsWordChar(c) ==
  \/ c \in Digits
  \/ c = "_"
  \/ \E k \in DOMAIN LowerCase : LowerCase[k] = c \/ UpperCase[k] = c

DigitValue(c) ==
  CASE c = "0" -> 0 [] c = "1" -> 1 [] c = "2" -> 2 [] c = "3" -> 3 [] c = "4" -> 4
    [] c = "5" -> 5 [] c = "6" -> 6 [] c = "7" -> 7 [] c = "8" -> 8 [] c = "9" -> 9

\* Number(text) for a text of decimal digits
RECURSIVE NumberOfDigits(_)
NumberOfDigits(cs) ==
  IF cs = <<>> THEN 0
  ELSE 10 * NumberOfDigits(SubSeq(cs, 1, Len(cs) - 1)) + DigitValue(cs[Len(cs)])

RECURSIVE PowerOfTen(_)
PowerOfTen(n) == IF n = 0 THEN 1 ELSE 10 * PowerOfTen(n - 1)

\* Number(text) for digits with an optional fraction: the value num / den
NumberOfDecimal(int, frac) ==
  [num |-> NumberOfDigits(int \o frac), den |-> PowerOfTen(Len(frac))]

\* Math.round(hours * 60 + minutes) for two values num / den
RoundedMinutes(hours, minutes) ==
  LET n == hours.num * 60 * minutes.den + minutes.num * hours.den
      d == hours.den * minutes.den
  IN (2 * n + d) \div (2 * d)

\* \d+ from position i (a digit): the position of its last digit
DigitRunEnd(s, i) ==
  CHOOSE j \in i..Len(s) :
    /\ \A k \in i..j : s[k] \in Digits
    /\ (j = Len(s) \/ s[j + 1] \notin Digits)

\* \s* from position i: the position of the first character after it
AfterSpaces(s, i) ==
  CHOOSE j \in i..(Len(s) + 1) :
    /\ \A k \in i..(j - 1) : s[k] = " "
    /\ (j = Len(s) + 1 \/ s[j] # " ")

\* (\d+(?:\.\d+)?) from position i (a digit): its parts and where it ends
QuantityAt(s, i) ==
  LET j == DigitRunEnd(s, i) IN
  IF j + 2 <= Len(s) /\ s[j + 1] = "." /\ s[j + 2] \in Digits
  THEN [int |-> SubSeq(s, i, j), frac |-> SubSeq(s, j + 2, DigitRunEnd(s, j + 2)),
        end |-> DigitRunEnd(s, j + 2)]
  ELSE [int |-> SubSeq(s, i, j), frac |-> <<>>, end |-> j]

\* (h|hr|hrs|hour|hours) and (m|min|mins|minute|minutes)
HourUnits ==
  {<<"h">>, <<"h", "r">>, <<"h", "r", "s">>, <<"h", "o", "u", "r">>,
   <<"h", "o", "u", "r", "s">>}
MinuteUnits ==
  {<<"m">>, <<"m", "i", "n">>, <<"m", "i", "n", "s">>,
   <<"m", "i", "n", "u", "t", "e">>, <<"m", "i", "n", "u", "t", "e", "s">>}

\* one of the unit words at position p, followed by a word boundary
UnitAt(s, p, units) ==
  \E u \in units :
    /\ p + Len(u) - 1 <= Len(s)
    /\ SubSeq(s, p, p + Len(u) - 1) = u
    /\ (p + Len(u) > Len(s) \/ ~IsWordChar(s[p + Len(u)]))

\* the expression quantity, white space, unit, word boundary matches at i
TokenAt(s, i, units) ==
  /\ s[i] \in Digits
  /\ UnitAt(s, AfterSpaces(s, QuantityAt(s, i).end + 1), units)

\* s.match(/(\d+(?:\.\d+)?)\s*(unit)\b/): the leftmost match, its group 1
TokenMatch(s, units) ==
  IF \E i \in DOMAIN s : TokenAt(s, i, units)
  THEN LET i == CHOOSE k \in DOMAIN s :
                  TokenAt(s, k, units) /\ \A l \in 1..(k - 1) : ~TokenAt(s, l, units)
       IN [matched |-> TRUE, quantity |-> QuantityAt(s, i)]
  ELSE [matched |-> FALSE, quantity |-> [int |-> <<"0">>, frac |-> <<>>, end |-> 0]]

\* s.match(/^(\d{1,2}):(\d{2})$/)
ColonMatch(s) ==
  /\ Len(s) \in {4, 5}
  /\ s[Len(s) - 2] = ":"
  /\ \A k \in DOMAIN s : k # Len(s) - 2 => s[k] \in Digits

parseDurationToMinutes(duration) ==
  IF duration = <<>> THEN 0
  ELSE
    LET s == Trim(ToLowerCase(duration))
        hMatch == TokenMatch(s, HourUnits)
        mMatch == TokenMatch(s, MinuteUnits)
    IN
    IF ColonMatch(s)
    THEN NumberOfDigits(SubSeq(s, 1, Len(s) - 3)) * 60
           + NumberOfDigits(SubSeq(s, Len(s) - 1, Len(s)))
    ELSE IF hMatch.matched \/ mMatch.matched
    THEN RoundedMinutes(NumberOfDecimal(hMatch.quantity.int, hMatch.quantity.frac),
                        NumberOfDecimal(mMatch.quantity.int, mMatch.quantity.frac))
    ELSE IF s # <<>> /\ \A k \in DOMAIN s : s[k] \in Digits
    THEN NumberOfDigits(s)
    ELSE IF \E k \in DOMAIN s : s[k] \in Digits
    THEN LET i == CHOOSE k \in DOMAIN s :
                    s[k] \in Digits /\ \A l \in 1..(k - 1) : s[l] \notin Digits
         IN NumberOfDigits(SubSeq(s, i, DigitRunEnd(s, i)))
    ELSE 0

\* String(n) for a non-negative integer, as its characters
RECURSIVE DigitsOf(_)
DigitsOf(n) ==
  IF n < 10 THEN << <<"0", "1", "2", "3", "4", "5", "6", "7", "8", "9">>[n + 1] >>
  ELSE DigitsOf(n \div 10) \o << <<"0", "1", "2", "3", "4", "5", "6", "7", "8", "9">>[(n % 10) + 1] >>

\* a format that writes hours and minutes without the space between them
formatMinutes_NoSpace(total) ==
  LET mins == IF total < 0 THEN 0 ELSE total
      h == mins \div 60
      m == mins % 60
  IN IF h <= 0 THEN DigitsOf(m) \o <<"m">>
     ELSE IF m = 0 THEN DigitsOf(h) \o <<"h">>
     ELSE DigitsOf(h) \o <<"h">> \o DigitsOf(m) \o <<"m">>

\* formatMinutes(total) for an integer total
formatMinutes(total) ==
  LET mins == IF total < 0 THEN 0 ELSE total
      h == mins \div 60
      m == mins % 60
  IN IF h <= 0 THEN DigitsOf(m) \o <<"m">>
     ELSE IF m = 0 THEN DigitsOf(h) \o <<"h">>
     ELSE DigitsOf(h) \o <<"h", " ">> \o DigitsOf(m) \o <<"m">>

(******************************* insights **********************************)
\* new Date(d.getFullYear(), d.getMonth(), d.getDate()), days counted from
\* time 0 (local midnight)
startOfDay(d) == DateOf(d.time - (d.time % DAY_MS))

\* daysAgo(n) when the clock reads clock: the day of the clock moved back
\* n days, at midnight
daysAgo(n, clock) == DateOf(((clock \div DAY_MS) - n) * DAY_MS)

\* reduce((sum, s) => sum + parseDurationToMinutes(s.duration), 0)
RECURSIVE SumMinutes(_)
SumMinutes(sessions) ==
  IF sessions = <<>> THEN 0
  ELSE parseDurationToMinutes(Head(sessions).duration) + SumMinutes(Tail(sessions))

sessionsInRange(sessions, cutoff) ==
  Filter(sessions, LAMBDA x : startOfDay(x.date).time >= cutoff.time)

\* the map from subjectId to minutes, over the sessions in range
minutesBySubject(inRange) ==
  [sid \in {inRange[i].subjectId : i \in DOMAIN inRange} |->
     SumMinutes(Filter(inRange, LAMBDA x : x.subjectId = sid))]

\* taskById[id]: the last task carrying the id, or undefined
taskById(ts, id) ==
  IF \E i \in DOMAIN ts : ts[i].id = id
  THEN ts[CHOOSE i \in DOMAIN ts : ts[i].id = id /\ \A j \in (i + 1)..Len(ts) : ts[j].id # id]
  ELSE Undefined

\* a rollup that counts a session for whatever task it is linked to
CountsForAssessment_AnyTask(ts, x) ==
  /\ Truthy(x.linkedTaskId)
  /\ taskById(ts, x.linkedTaskId.text) # Undefined

\* the three early returns of the forEach callback of minutesByAssessment
CountsForAssessment(ts, x) ==
  /\ Truthy(x.linkedTaskId)
  /\ taskById(ts, x.linkedTaskId.text) # Undefined
  /\ taskById(ts, x.linkedTaskId.text).type \in {"exam", "assignment"}

\* the map from task id to minutes, over all the sessions
minutesByAssessment(sessions, ts) ==
  LET counted == Filter(sessions, LAMBDA x : CountsForAssessment(ts, x)) IN
  [id \in {counted[i].linkedTaskId.text : i \in DOMAIN counted} |->
     SumMinutes(Filter(counted, LAMBDA x : x.linkedTaskId.text = id))]

\* Tasks view: the minutes shown next to a task
getMinutesStudiedForTask(sessions, taskId) ==
  SumMinutes(Filter(sessions, LAMBDA x : x.linkedTaskId = Str(taskId)))

(****************************** inputs *************************************)
\* the clock readings the environment moves through
\* Array.prototype.sort with (a, b) => a.dueDate.getTime() - b.dueDate.getTime():
\* ascending and stable
RECURSIVE sortByDueDate(_)
sortByDueDate(seq) ==
  IF seq = <<>> THEN <<>>
  ELSE LET init == sortByDueDate(SubSeq(seq, 1, Len(seq) - 1))
           t == seq[Len(seq)]
           k == Cardinality({i \in DOMAIN init : init[i].dueDate.time <= t.dueDate.time})
       IN SubSeq(init, 1, k) \o <<t>> \o SubSeq(init, k + 1, Len(init))

\* an upcoming list that keeps the order of the tasks collection
upcomingAssessments_NoSort(ts, clock) ==
  LET assessments == Filter(ts, LAMBDA t : t.type = "exam" \/ t.type = "assignment")
      due == Filter(assessments, LAMBDA t : t.dueDate.time >= clock)
  IN SubSeq(due, 1, IF Len(due) < 5 THEN Len(due) ELSE 5)

upcomingAssessments(ts, clock) ==
  LET assessments == Filter(ts, LAMBDA t : t.type = "exam" \/ t.type = "assignment")
      due == Filter(assessments, LAMBDA t : t.dueDate.time >= clock)
      sorted == sortByDueDate(due)
  IN SubSeq(sorted, 1, IF Len(sorted) < 5 THEN Len(sorted) ELSE 5)

Instants == {0, 23 * HOUR_MS, 25 * HOUR_MS}
GeneratedIds == {NewId(i) : i \in Instants}

Range(seq) == {seq[i] : i \in DOMAIN seq}
Ids(seq) == {seq[i].id : i \in DOMAIN seq}

\* an id that no entity carries
NoSuchId == "404"

\* the entities the user acts on: those created in the session, one default
\* subject, the linked pair of the demo data, and an id that matches nothing
SubjectTargets(st) == (Ids(st.subjects) \cap (GeneratedIds \cup {"1"})) \cup {NoSuchId}
TaskTargets(st) == (Ids(st.tasks) \cap (GeneratedIds \cup {"t3"})) \cup {NoSuchId}
SessionTargets(st) == (Ids(st.studySessions) \cap (GeneratedIds \cup {"ss1"})) \cup {NoSuchId}

\* the subject select of the forms lists the current subjects
FormSubjects(st) == Ids(st.subjects) \cap (GeneratedIds \cup {"1"})

\* the "link to assessment" select lists the exams and assignments, or none
linkableAssessments(st) ==
  {Str(t.id) : t \in {u \in Range(st.tasks) : u.type \in {"exam", "assignment"}}}
    \cup {Undefined}

FormDueDate == DateOf(2 * DAY_MS)
EditDueDate == DateOf(3 * DAY_MS)
SessionTitles == {<<"R">>, <<" ">>}

\* the "link to assessment" select of a form whose subject is subjectId
LinkChoices(st, subjectId) ==
  {l \in linkableAssessments(st) :
     l = Undefined \/ \E t \in Range(st.tasks) : t.id = l.text /\ t.subjectId = subjectId}

\* seq.find((e) => e.id === id)?.field
FindField(seq, id, field) ==
  IF \E i \in DOMAIN seq : seq[i].id = id
  THEN seq[CHOOSE i \in DOMAIN seq : seq[i].id = id /\ \A j \in 1..(i - 1) : seq[j].id # id][field]
  ELSE Undefined

(************************** form submit handlers ***************************)
\* Tasks view, handleSubmit when editing: completion fields are carried over
TasksViewEditPayload(st, editingId, title, subjectId, dueDate, type) ==
  [id |-> "", title |-> title, subjectId |-> subjectId, dueDate |-> dueDate, type |-> type,
   completed |-> FindField(st.tasks, editingId, "completed"),
   completedAt |-> FindField(st.tasks, editingId, "completedAt")]

\* Tasks view when adding, and Calendar view handleTaskSubmit (adding or editing)
TaskPayload(title, subjectId, dueDate, type) == TaskLit("", title, subjectId, dueDate, type)

\* Study planner handleSubmit / Calendar handleSessionSubmit
SessionPayload(st, editingId, typedTitle, subjectId, date, link) ==
  [id |-> "", subjectId |-> subjectId, title |-> Chars(Trim(typedTitle)), date |-> date,
   startTime |-> "4:00 PM", duration |-> "60 min", linkedTaskId |-> link,
   completed |-> IF editingId = "" THEN Undefined
                 ELSE FindField(st.studySessions, editingId, "completed"),
   completedAt |-> IF editingId = "" THEN Undefined
                   ELSE FindField(st.studySessions, editingId, "completedAt")]

(***************************** the component *******************************)
State == [subjects |-> subjects, tasks |-> tasks, studySessions |-> studySessions]

NoUpdate == [subjects |-> <<>>, tasks |-> <<>>, studySessions |-> <<>>]

\* updates that are rendered one at a time: the first render after a handler
\* shows the new subjects next to the old tasks and sessions
Commit_SubjectsFirst(st) ==
  /\ subjects' = st.subjects
  /\ tasks' = IF st.subjects = subjects THEN st.tasks ELSE tasks
  /\ studySessions' = IF st.subjects = subjects THEN st.studySessions ELSE studySessions

Commit(st) ==
  /\ subjects' = st.subjects
  /\ tasks' = st.tasks
  /\ studySessions' = st.studySessions

Op(name, id) == [op |-> name, id |-> id]
Idle == Op("idle", "")

\* a store handler called from an event: React renders the batched updates
\* at the end of the event, and the persistence effect is then due
Dispatch(st, name, id) ==
  /\ pc = "idle"
  /\ ops < MaxOps
  /\ Commit(st)
  /\ pc' = "effects"
  /\ lastOp' = Op(name, id)
  /\ ops' = ops + 1
  /\ UNCHANGED <<mode, storage, now, hydrated, pending>>

\* first effect of the mount: read the storage key, queue the loaded or
\* seeded collections, mark hydration complete
HydrationEffect ==
  /\ pc = "mount"
  /\ pending' = Hydrate(storage[storageKey(mode)], mode, now, State)
  /\ hydrated' = TRUE
  /\ pc' = "mounted"
  /\ lastOp' = Op("hydrate", "")
  /\ UNCHANGED <<mode, storage, now, subjects, tasks, studySessions, ops>>

\* a persistence effect that is not held back by the hydrated flag and may
\* run before the hydration effect
PersistenceEffect_BeforeHydration ==
  /\ pc \in {"mount", "mounted", "effects"}
  /\ storage' = [storage EXCEPT ![storageKey(mode)] = JSONstringify(State)]
  /\ pc' = IF pc = "mount" THEN "mount" ELSE IF pc = "mounted" THEN "render" ELSE "idle"
  /\ lastOp' = IF pc = "effects" THEN Idle ELSE lastOp
  /\ UNCHANGED <<mode, now, subjects, tasks, studySessions, hydrated, pending, ops>>

\* a persistence effect that runs but never writes
PersistenceEffect_NoWrite ==
  /\ pc \in {"mounted", "effects"}
  /\ pc' = IF pc = "mounted" THEN "render" ELSE "idle"
  /\ lastOp' = IF pc = "mounted" THEN lastOp ELSE Idle
  /\ UNCHANGED <<mode, storage, now, subjects, tasks, studySessions, hydrated, pending, ops>>

\* second effect: write the collections of the render that scheduled it
PersistenceEffect ==
  /\ pc \in {"mounted", "effects"}
  /\ IF hydrated
     THEN storage' = [storage EXCEPT ![storageKey(mode)] = JSONstringify(State)]
     ELSE UNCHANGED storage
  /\ pc' = IF pc = "mounted" THEN "render" ELSE "idle"
  /\ lastOp' = IF pc = "mounted" THEN lastOp ELSE Idle
  /\ UNCHANGED <<mode, now, subjects, tasks, studySessions, hydrated, pending, ops>>

\* the re-render that applies the updates queued by the hydration effect
Render ==
  /\ pc = "render"
  /\ Commit(pending)
  /\ pending' = NoUpdate
  /\ pc' = "effects"
  /\ UNCHANGED <<mode, storage, now, hydrated, lastOp, ops>>

AddSubject ==
  /\ Dispatch(handleAddSubject(State, "Biology", "#7A9B7F", now), "addSubject", NewId(now))

UpdateSubject ==
  \E id \in SubjectTargets(State) :
    Dispatch(handleUpdateSubject(State, id, "Renamed", "#000000"), "updateSubject", id)

DeleteSubject ==
  \E id \in SubjectTargets(State) :
    Dispatch(handleDeleteSubject(State, id), "deleteSubject", id)

AddTask ==
  /\ \E subjectId \in FormSubjects(State) :
       Dispatch(handleAddTask(State, TaskPayload("Essay", subjectId, FormDueDate, "assignment"), now),
                "addTask", NewId(now))

UpdateTaskFromTasksView ==
  \E id \in TaskTargets(State) \ {NoSuchId}, subjectId \in FormSubjects(State) :
    Dispatch(handleUpdateTask(State, id,
               TasksViewEditPayload(State, id, "Essay v2", subjectId, EditDueDate, "exam")),
             "updateTask", id)

UpdateTaskFromCalendar ==
  \E id \in TaskTargets(State), subjectId \in FormSubjects(State) :
    Dispatch(handleUpdateTask(State, id, TaskPayload("Essay v2", subjectId, EditDueDate, "exam")),
             "updateTask", id)

DeleteTask ==
  \E id \in TaskTargets(State) :
    Dispatch(handleDeleteTask(State, id), "deleteTask", id)

ToggleTaskCompleted ==
  \E id \in TaskTargets(State) :
    Dispatch(toggleTaskCompleted(State, id, now), "toggleTaskCompleted", id)

AddStudySession ==
  /\ \E subjectId \in FormSubjects(State), typed \in SessionTitles :
       \E link \in LinkChoices(State, subjectId) :
         Dispatch(handleAddStudySession(State,
                    SessionPayload(State, "", typed, subjectId, FormDueDate, link), now),
                  "addStudySession", NewId(now))

UpdateStudySession ==
  \E id \in SessionTargets(State), subjectId \in FormSubjects(State), typed \in SessionTitles :
    \E link \in LinkChoices(State, subjectId) :
      Dispatch(handleUpdateStudySession(State, id,
                 SessionPayload(State, id, typed, subjectId, EditDueDate, link)),
               "updateStudySession", id)

DeleteStudySession ==
  \E id \in SessionTargets(State) :
    Dispatch(handleDeleteStudySession(State, id), "deleteStudySession", id)

ToggleSessionCompleted ==
  \E id \in SessionTargets(State) :
    Dispatch(handleToggleSessionCompleted(State, id, now), "toggleSessionCompleted", id)

\* handleClearAllData: remove the key, then set the collections to the seed
handleClearAllData(m, clock) == Seed(m, clock)

ClearAllData ==
  /\ pc = "idle"
  /\ ops < MaxOps
  /\ storage' = [storage EXCEPT ![storageKey(mode)] = Null]
  /\ Commit(handleClearAllData(mode, now))
  /\ pc' = "effects"
  /\ lastOp' = Op("clearAllData", "")
  /\ ops' = ops + 1
  /\ UNCHANGED <<mode, now, hydrated, pending>>

\* time passes while the app sits idle
Tick ==
  /\ pc = "idle"
  /\ \E t \in Instants : t > now /\ now' = t
  /\ UNCHANGED <<mode, storage, subjects, tasks, studySessions, hydrated, pending, pc, lastOp, ops>>

\* the page is loaded again: the component is constructed anew
Reload ==
  /\ pc = "idle"
  /\ ops < MaxOps
  /\ Commit(InitialState)
  /\ hydrated' = FALSE
  /\ pending' = NoUpdate
  /\ pc' = "mount"
  /\ lastOp' = Op("reload", "")
  /\ ops' = ops + 1
  /\ UNCHANGED <<mode, storage, now>>

Init ==
  /\ mode \in Modes
  /\ storage = [k \in StorageKeys |-> Null]
  /\ now = 0
  /\ subjects = InitialState.subjects
  /\ tasks = InitialState.tasks
  /\ studySessions = InitialState.studySessions
  /\ hydrated = FALSE
  /\ pending = NoUpdate
  /\ pc = "mount"
  /\ lastOp = Op("mount", "")
  /\ ops = 0

Next ==
  \/ HydrationEffect
  \/ PersistenceEffect
  \/ Render
  \/ AddSubject
  \/ UpdateSubject
  \/ DeleteSubject
  \/ AddTask
  \/ UpdateTaskFromTasksView
  \/ UpdateTaskFromCalendar
  \/ DeleteTask
  \/ ToggleTaskCompleted
  \/ AddStudySession
  \/ UpdateStudySession
  \/ DeleteStudySession
  \/ ToggleSessionCompleted
  \/ ClearAllData
  \/ Tick
  \/ Reload

Spec == Init /\ [][Next]_vars

(******************** startup against a stored value ***********************)
\* Collections a previous session may have left under the storage key.
StoredSubjects == << [id |-> "s9", name |-> "Biology", color |-> "#7A9B7F"] >>

StoredTasks ==
  << [TaskLit("k1", "Essay", "s9", DateOf(2 * DAY_MS), "assignment")
        EXCEPT !.completed = Bool(TRUE), !.completedAt = DateOf(23 * HOUR_MS)],
     TaskLit("k2", "Quiz", "s9", DateOf(3 * DAY_MS), "exam") >>

StoredSessions ==
  << [id |-> "x1", subjectId |-> "s9", title |-> Chars(<<"R">>), date |-> DateOf(DAY_MS),
      startTime |-> "4:00 PM", duration |-> "1h 30m", linkedTaskId |-> Str("k2"),
      completed |-> Bool(FALSE), completedAt |-> Undefined] >>

StoredState ==
  [subjects |-> StoredSubjects, tasks |-> StoredTasks, studySessions |-> StoredSessions]

\* the document JSON.stringify writes for StoredState, with any of the three
\* top-level fields left out (a document of an older format)
PartialDocs ==
  {Obj(IF "subjects" \in present THEN JSONstringify(StoredState).json.subjects ELSE Undefined,
       IF "tasks" \in present THEN JSONstringify(StoredState).json.tasks ELSE Undefined,
       IF "studySessions" \in present THEN JSONstringify(StoredState).json.studySessions
       ELSE Undefined) :
     present \in SUBSET {"subjects", "tasks", "studySessions"}}

PartialBlobs == {[kind |-> "string", json |-> d] : d \in PartialDocs}

\* stored values whose load fails: not JSON, the document null, a tasks or
\* studySessions field that is not an array, a session title that is a number
CorruptDocs ==
  {Null,
   Obj(JSONstringify(StoredState).json.subjects, Num(7), JSONstringify(StoredState).json.studySessions),
   Obj(JSONstringify(StoredState).json.subjects, JSONstringify(StoredState).json.tasks, Num(7)),
   Obj(JSONstringify(StoredState).json.subjects, JSONstringify(StoredState).json.tasks,
       Arr(<< [SessionToJSON(StoredSessions[1]) EXCEPT !.title = Num(7)] >>))}

CorruptBlobs == {Garbage} \cup {[kind |-> "string", json |-> d] : d \in CorruptDocs}

\* what a stored date field may hold besides an ISO string: nothing, null,
\* or a string that Date cannot parse
DateDefects == {Undefined, Null, Str("not a date")}

\* the document of StoredState with the dueDate of task k2 and the date of
\* session x1 each left as written or replaced by a defect
DateDefectDocs ==
  {Obj(JSONstringify(StoredState).json.subjects,
       Arr(<< TaskToJSON(StoredTasks[1]), [TaskToJSON(StoredTasks[2]) EXCEPT !.dueDate = d] >>),
       Arr(<< [SessionToJSON(StoredSessions[1]) EXCEPT !.date = e] >>)) :
     d \in DateDefects \cup {DateToJSON(StoredTasks[2].dueDate)},
     e \in DateDefects \cup {DateToJSON(StoredSessions[1].date)}}
    \ {JSONstringify(StoredState).json}

DateDefectBlobs == {[kind |-> "string", json |-> d] : d \in DateDefectDocs}

\* titles a stored session may carry: none, null, empty, blank, plain,
\* padded with spaces, and with a space inside
StoredTitles ==
  {Undefined, Null, Chars(<<>>), Chars(<<" ">>), Chars(<<" ", " ">>), Chars(<<"R">>),
   Chars(<<" ", "R", " ">>), Chars(<<"R", " ", "S">>)}

TitleDocs ==
  {Obj(JSONstringify(StoredState).json.subjects, JSONstringify(StoredState).json.tasks,
       Arr(<< [SessionToJSON(StoredSessions[1]) EXCEPT !.title = t],
              [SessionToJSON(StoredSessions[1]) EXCEPT !.id = "x2"] >>)) :
     t \in StoredTitles}

TitleBlobs == {[kind |-> "string", json |-> d] : d \in TitleDocs}

InitialBlobs == {Null} \cup PartialBlobs \cup CorruptBlobs \cup DateDefectBlobs \cup TitleBlobs

LoadClocks == {0, 25 * HOUR_MS}

InitLoad ==
  /\ mode \in Modes
  /\ \E b \in InitialBlobs :
       storage = [k \in StorageKeys |-> IF k = storageKey(mode) THEN b ELSE Null]
  /\ now \in LoadClocks
  /\ subjects = InitialState.subjects
  /\ tasks = InitialState.tasks
  /\ studySessions = InitialState.studySessions
  /\ hydrated = FALSE
  /\ pending = NoUpdate
  /\ pc = "mount"
  /\ lastOp = Op("mount", "")
  /\ ops = 0

NextLoad ==
  \/ HydrationEffect
  \/ PersistenceEffect
  \/ Render
  \/ Tick
  \/ Reload

SpecLoad == InitLoad /\ [][NextLoad]_vars

(***************** two datasets and a store that can fail ******************)
\* what the key of the mode not in use may hold, and what the mode's own key
\* holds at the start
ForeignBlobs == {Null, Garbage, JSONstringify(StoredState)}
OwnBlobs == {Null, JSONstringify(Seed("demo", 0))}

InitStorage ==
  /\ mode \in Modes
  /\ \E own \in OwnBlobs, other \in ForeignBlobs :
       storage = [k \in StorageKeys |-> IF k = storageKey(mode) THEN own ELSE other]
  /\ now = 0
  /\ subjects = InitialState.subjects
  /\ tasks = InitialState.tasks
  /\ studySessions = InitialState.studySessions
  /\ hydrated = FALSE
  /\ pending = NoUpdate
  /\ pc = "mount"
  /\ lastOp = Op("mount", "")
  /\ ops = 0

\* the persistence effect when localStorage.setItem throws (quota exceeded):
\* the effect has no try, the exception leaves it, and React, finding no
\* error boundary, unmounts the tree: the component and its state are gone
PersistenceEffectThrows ==
  /\ pc \in {"mounted", "effects"}
  /\ hydrated
  /\ Commit(NoUpdate)
  /\ pending' = NoUpdate
  /\ pc' = "unmounted"
  /\ UNCHANGED <<mode, storage, now, hydrated, lastOp, ops>>

NextStorage ==
  \/ HydrationEffect
  \/ PersistenceEffect
  \/ PersistenceEffectThrows
  \/ Render
  \/ AddSubject
  \/ DeleteSubject
  \/ AddTask
  \/ ToggleTaskCompleted
  \/ ClearAllData
  \/ Tick
  \/ Reload

SpecStorage == InitStorage /\ [][NextStorage]_vars

(**************** the duration parser as a pure function *******************)
\* longest free text drawn for the parser
MaxDurationLen == 3

DurationAlphabet == {"0", "1", "3", ".", ":", "h", "m", " "}

FreeTexts == UNION {[1..n -> DurationAlphabet] : n \in 0..MaxDurationLen}

\* "1h 30m", "90 min", "2:15", "1h", "90", "1H 30M", "abc", "12:05", "7 apples"
WrittenTexts ==
  {<<"1", "h", " ", "3", "0", "m">>, <<"9", "0", " ", "m", "i", "n">>,
   <<"2", ":", "1", "5">>, <<"1", "h">>, <<"9", "0">>,
   <<"1", "H", " ", "3", "0", "M">>, <<"a", "b", "c">>, <<"1", "2", ":", "0", "5">>,
   <<"7", " ", "a", "p", "p", "l", "e", "s">>}

\* quantities written with and without a fraction, with the value num / den
Quantities ==
  {[int |-> <<"1">>, frac |-> <<>>, num |-> 1, den |-> 1],
   [int |-> <<"3", "0">>, frac |-> <<>>, num |-> 30, den |-> 1],
   [int |-> <<"1">>, frac |-> <<"5">>, num |-> 15, den |-> 10],
   [int |-> <<"0">>, frac |-> <<"5">>, num |-> 5, den |-> 10]}

QuantityText(q) == IF q.frac = <<>> THEN q.int ELSE q.int \o <<".">> \o q.frac

\* a text made of an hour quantity with its unit and a minute quantity with
\* its unit, in either order, with or without spaces
TokenInputs ==
  {[text |-> IF o = "hm"
             THEN QuantityText(h) \o sp \o hu \o gap \o QuantityText(m) \o sp \o mu
             ELSE QuantityText(m) \o sp \o mu \o gap \o QuantityText(h) \o sp \o hu,
    form |-> "tokens", hours |-> h, minutes |-> m, gap |-> gap, result |-> Undefined] :
     o \in {"hm", "mh"}, h \in Quantities, m \in Quantities, hu \in HourUnits,
     mu \in MinuteUnits, sp \in {<<>>, <<" ">>}, gap \in {<<>>, <<" ">>}}

TextInputs ==
  {[text |-> t, form |-> "text", result |-> Undefined] : t \in FreeTexts \cup WrittenTexts}

ParseInputs == TextInputs \cup TokenInputs

InitParse ==
  /\ mode = "app"
  /\ storage = [k \in StorageKeys |-> Null]
  /\ now = 0
  /\ subjects = InitialState.subjects
  /\ tasks = <<>>
  /\ studySessions = <<>>
  /\ hydrated = TRUE
  /\ pending \in ParseInputs
  /\ pc = "parse"
  /\ lastOp = Op("parse", "")
  /\ ops = 0

\* one call of parseDurationToMinutes on the text
ParseDuration ==
  /\ pc = "parse"
  /\ pending' = [pending EXCEPT !.result = Num(parseDurationToMinutes(pending.text))]
  /\ pc' = "parsed"
  /\ UNCHANGED <<mode, storage, now, subjects, tasks, studySessions, hydrated, lastOp, ops>>

NextParse == ParseDuration

SpecParse == InitParse /\ [][NextParse]_vars

(***************** formatting and parsing back a duration ******************)
\* largest number of minutes formatted
MaxMinutes == 150

InitFormat ==
  /\ mode = "app"
  /\ storage = [k \in StorageKeys |-> Null]
  /\ now = 0
  /\ subjects = InitialState.subjects
  /\ tasks = <<>>
  /\ studySessions = <<>>
  /\ hydrated = TRUE
  /\ \E m \in 0..MaxMinutes :
       pending = [minutes |-> m, text |-> <<>>, parsed |-> Undefined, again |-> <<>>]
  /\ pc = "format"
  /\ lastOp = Op("format", "")
  /\ ops = 0

\* formatMinutes(m)
FormatMinutes ==
  /\ pc = "format"
  /\ pending' = [pending EXCEPT !.text = formatMinutes(pending.minutes)]
  /\ pc' = "formatted"
  /\ UNCHANGED <<mode, storage, now, subjects, tasks, studySessions, hydrated, lastOp, ops>>

\* parseDurationToMinutes of the formatted text
ParseFormatted ==
  /\ pc = "formatted"
  /\ pending' = [pending EXCEPT !.parsed = Num(parseDurationToMinutes(pending.text))]
  /\ pc' = "reparsed"
  /\ UNCHANGED <<mode, storage, now, subjects, tasks, studySessions, hydrated, lastOp, ops>>

\* formatMinutes of the parsed minutes
FormatParsed ==
  /\ pc = "reparsed"
  /\ pending' = [pending EXCEPT !.again = formatMinutes(pending.parsed.val)]
  /\ pc' = "reformatted"
  /\ UNCHANGED <<mode, storage, now, subjects, tasks, studySessions, hydrated, lastOp, ops>>

NextFormat == FormatMinutes \/ ParseFormatted \/ FormatParsed

SpecFormat == InitFormat /\ [][NextFormat]_vars

(******************** the rollups as pure functions ************************)
\* most sessions in a list drawn for the rollups
MaxRollupSessions == 2

\* the clock of the Insights view: day 20, five hours into the day
InsightsClock == 20 * DAY_MS + 5 * HOUR_MS

\* the ranges the view offers, in days
Ranges == {7, 30}

\* no task, or one task "a1" of each type
RollupTaskLists ==
  {<<>>} \cup {<< TaskLit("a1", "Essay", "1", FormDueDate, ty) >> :
                 ty \in {"task", "assignment", "exam", "homework"}}

\* the dates of sessions one, ten and forty days before the clock's day
RollupDates == {19 * DAY_MS + 9 * HOUR_MS, 10 * DAY_MS, 9 * HOUR_MS - 20 * DAY_MS}

\* sessions of two subjects, one, ten and forty days old, not linked, linked
\* to "a1", or linked to a task that was deleted
RollupSessions ==
  {[id |-> "x", subjectId |-> sid,
    title |-> Chars(<<"R">>), date |-> DateOf(day),
    startTime |-> "4:00 PM",
    duration |-> IF sid = "1" THEN <<"6", "0", " ", "m", "i", "n">>
                 ELSE <<"1", "h", " ", "3", "0", "m">>,
    linkedTaskId |-> link, completed |-> Bool(FALSE), completedAt |-> Undefined] :
     sid \in {"1", "2"}, day \in RollupDates, link \in {Undefined, Str("a1"), Str("gone")}}

RollupSessionLists == UNION {[1..n -> RollupSessions] : n \in 0..MaxRollupSessions}

InitInsights ==
  /\ mode = "app"
  /\ storage = [k \in StorageKeys |-> Null]
  /\ now = InsightsClock
  /\ subjects = InitialState.subjects
  /\ tasks \in RollupTaskLists
  /\ studySessions \in RollupSessionLists
  /\ hydrated = TRUE
  /\ \E range \in Ranges : pending = [range |-> range]
  /\ pc = "insights"
  /\ lastOp = Op("insights", "")
  /\ ops = 0

\* one render of the Insights view and of the Tasks view: the rollups
RenderRollups ==
  /\ pc = "insights"
  /\ pending' =
       [range |-> pending.range,
        minutesBySubject |->
          minutesBySubject(sessionsInRange(studySessions, daysAgo(pending.range, now))),
        minutesByAssessment |-> minutesByAssessment(studySessions, tasks),
        studiedMins |-> [i \in DOMAIN tasks |-> getMinutesStudiedForTask(studySessions, tasks[i].id)]]
  /\ pc' = "rollups"
  /\ UNCHANGED <<mode, storage, now, subjects, tasks, studySessions, hydrated, lastOp, ops>>

NextInsights == RenderRollups

SpecInsights == InitInsights /\ [][NextInsights]_vars

(************************ the upcoming list ********************************)
MaxUpcomingLen == 6

UpcomingClock == 5 * DAY_MS + 9 * HOUR_MS

\* a task of each kind the list has to tell apart: assessments due before,
\* at and after the clock reading, and a plain task due after it
UpcomingKinds ==
  {[type |-> "exam", dueDate |-> DateOf(UpcomingClock + DAY_MS)],
   [type |-> "assignment", dueDate |-> DateOf(UpcomingClock)],
   [type |-> "exam", dueDate |-> DateOf(UpcomingClock - DAY_MS)],
   [type |-> "task", dueDate |-> DateOf(UpcomingClock + 2 * DAY_MS)]}

\* task lists of up to MaxUpcomingLen tasks, the i-th with id i
UpcomingTaskLists ==
  UNION {{[i \in 1..n |-> TaskLit(ToString(i), "Essay", "1", f[i].dueDate, f[i].type)] :
            f \in [1..n -> UpcomingKinds]} : n \in 0..MaxUpcomingLen}

InitUpcoming ==
  /\ mode = "app"
  /\ storage = [k \in StorageKeys |-> Null]
  /\ now = UpcomingClock
  /\ subjects = InitialState.subjects
  /\ tasks \in UpcomingTaskLists
  /\ studySessions = <<>>
  /\ hydrated = TRUE
  /\ pending = [upcoming |-> <<>>]
  /\ pc = "upcoming"
  /\ lastOp = Op("upcoming", "")
  /\ ops = 0

\* one render of the Insights view: the upcoming assessments
RenderUpcoming ==
  /\ pc = "upcoming"
  /\ pending' = [upcoming |-> upcomingAssessments(tasks, now)]
  /\ pc' = "listed"
  /\ UNCHANGED <<mode, storage, now, subjects, tasks, studySessions, hydrated, lastOp, ops>>

NextUpcoming == RenderUpcoming

SpecUpcoming == InitUpcoming /\ [][NextUpcoming]_vars

(********************* the sweep as a pure function ************************)
SweepClocks ==
  {HOUR_MS, AUTO_DELETE_COMPLETED_AFTER_MS - 1, AUTO_DELETE_COMPLETED_AFTER_MS,
   AUTO_DELETE_COMPLETED_AFTER_MS + 1}

\* a task in each completion state the store can hold
SweepTasks ==
  {[TaskLit(id, "Essay", "1", FormDueDate, "assignment")
      EXCEPT !.completed = c, !.completedAt = at] :
     id \in {"a", "b"}, c \in {Undefined, Bool(FALSE), Bool(TRUE)},
     at \in {Undefined, DateOf(0), DateOf(NaN)}}

MaxSweepLen == 2

SweepInputs ==
  UNION {[1..n -> SweepTasks] : n \in 0..MaxSweepLen}

InitSweep ==
  /\ mode = "app"
  /\ storage = [k \in StorageKeys |-> Null]
  /\ now \in SweepClocks
  /\ subjects = InitialState.subjects
  /\ tasks \in SweepInputs
  /\ studySessions = <<>>
  /\ hydrated = TRUE
  /\ pending = NoUpdate
  /\ pc = "sweep"
  /\ lastOp = Op("sweep", "")
  /\ ops = 0

\* one application of the sweep to the task list
Sweep ==
  /\ pc = "sweep"
  /\ tasks' = pruneAutoDeletedCompletedTasks(tasks, now)
  /\ pc' = "swept"
  /\ lastOp' = Op("sweep", ToString(Len(tasks)))
  /\ UNCHANGED <<mode, storage, now, subjects, studySessions, hydrated, pending, ops>>

\* the sweep applied again to its own result
SweepAgain ==
  /\ pc = "swept"
  /\ tasks' = pruneAutoDeletedCompletedTasks(tasks, now)
  /\ pc' = "swept2"
  /\ UNCHANGED <<mode, storage, now, subjects, studySessions, hydrated, pending, lastOp, ops>>

NextSweep == Sweep \/ SweepAgain

SpecSweep == InitSweep /\ [][NextSweep]_vars

TypeOK ==
  /\ mode \in Modes
  /\ hydrated \in BOOLEAN
  /\ pc \in {"mount", "mounted", "render", "effects", "idle", "unmounted",
            "format", "formatted", "reparsed", "reformatted",
            "parse", "parsed", "insights", "rollups", "upcoming", "listed", "sweep", "swept", "swept2"}
  /\ ops \in 0..MaxOps

(******************************* claims ************************************)

\* C1: after deleteSubject(id) the subject is gone and no remaining Task or
\* StudySession has subjectId = id.
C1_CascadeIntegrity ==
  (pc = "effects" /\ lastOp.op = "deleteSubject") =>
    /\ \A s \in Range(subjects) : s.id # lastOp.id
    /\ \A t \in Range(tasks) : t.subjectId # lastOp.id
    /\ \A x \in Range(studySessions) : x.subjectId # lastOp.id

\* Subject "1" of the demo data, with its task t3 and the session ss1 linked
\* to t3, has just been deleted: both dependents went with it.
C1_Witness ==
  /\ mode = "demo" /\ ops = 1 /\ pc = "effects"
  /\ lastOp = Op("deleteSubject", "1")
  /\ Ids(tasks) = {"t1", "t2", "t4"}
  /\ studySessions = <<>>

\* C2: deleteTask(id) keeps every StudySession, in place: those linked to id
\* get linkedTaskId undefined and are otherwise unchanged, the others are
\* unchanged (and keep their link); subjects are untouched.
C2_UnlinkNotDelete ==
  [][(pc = "idle" /\ pc' = "effects" /\ lastOp'.op = "deleteTask") =>
       /\ Len(studySessions') = Len(studySessions)
       /\ \A i \in DOMAIN studySessions :
            studySessions'[i] =
              IF studySessions[i].linkedTaskId = Str(lastOp'.id)
              THEN [studySessions[i] EXCEPT !.linkedTaskId = Undefined]
              ELSE studySessions[i]
       /\ subjects' = subjects]_vars

\* Task t3 has just been deleted: ss1, which was linked to it, is still there
\* without a link, next to a session that keeps its link to another task.
C2_Witness ==
  /\ pc = "effects" /\ lastOp = Op("deleteTask", "t3")
  /\ \E x \in Range(studySessions) : x.id = "ss1" /\ x.linkedTaskId = Undefined
  /\ \E x \in Range(studySessions) :
       /\ x.linkedTaskId # Undefined
       /\ x.linkedTaskId.text \in Ids(tasks)

\* C3: for every Task, completed is true iff completedAt is defined.
C3_TaskCompletionPairing ==
  \A t \in Range(tasks) : Truthy(t.completed) <=> (t.completedAt # Undefined)

\* C4: for every StudySession, completed is true iff completedAt is defined.
C4_SessionCompletionPairing ==
  \A x \in Range(studySessions) : Truthy(x.completed) <=> (x.completedAt # Undefined)

\* a completed task's completedAt: an invalid date has no age and is counted
\* as past every window
Age(t, clock) == clock - t.completedAt.time
IsCompletedWithDate(t) == t.completed = Bool(TRUE) /\ t.completedAt # Undefined

\* C5 (as claimed): the sweep removes exactly the completed tasks with a
\* completedAt whose age exceeds 24 hours, and keeps the rest in order, an
\* age of exactly 24 hours included.
C5_SweepRemovesOlderThanWindow ==
  [][(pc = "sweep" /\ pc' = "swept") =>
       tasks' = SelectSeq(tasks, LAMBDA t :
                  ~(IsCompletedWithDate(t) /\
                    (t.completedAt.time = NaN \/ Age(t, now) > 24 * HOUR_MS)))]_vars

\* C5 (amended): the sweep removes exactly the completed tasks with a
\* completedAt whose age is 24 hours or more, and keeps the rest in order.
C5_SweepRemovesAtWindow ==
  [][(pc = "sweep" /\ pc' = "swept") =>
       tasks' = SelectSeq(tasks, LAMBDA t :
                  ~(IsCompletedWithDate(t) /\
                    (t.completedAt.time = NaN \/ Age(t, now) >= 24 * HOUR_MS)))]_vars

\* Two tasks were swept when the clock read exactly 24 hours: the one
\* completed at time 0 is gone, the one not completed is kept.
C5_Witness ==
  /\ pc = "swept" /\ lastOp = Op("sweep", "2")
  /\ now = 24 * HOUR_MS
  /\ Len(tasks) = 1
  /\ tasks[1].completed = Undefined

\* C6: a persistence cycle sweeps: after it, every completed task that was
\* within 23 hours of its completion is still there, and no task completed
\* 25 hours ago or more is left in memory or in the persisted task list.
C6_SweepOnPersistenceCycle ==
  [][(pc = "effects" /\ pc' = "idle") =>
       /\ \A t \in Range(tasks) :
            (IsCompletedWithDate(t) /\ Age(t, now) <= 23 * HOUR_MS) => t \in Range(tasks')
       /\ \A t \in Range(tasks') :
            IsCompletedWithDate(t) => Age(t, now) < 25 * HOUR_MS
       /\ \A t \in Range(storage'[storageKey(mode)].json.tasks.items) :
            (t.completed = Bool(TRUE) /\ t.completedAt # Undefined) =>
              now - t.completedAt.iso < 25 * HOUR_MS]_vars

\* blank-title normalization of a session
NormalizedTitle(x) ==
  IF x.title = Undefined \/ Trim(x.title.chars) = <<>>
  THEN [x EXCEPT !.title = Chars(PLACEHOLDER_TITLE)] ELSE x

\* C7 (as claimed): with the collections at rest and saved, hydrating from
\* the stored text gives the collections back, field for field, modulo
\* blank-title normalization.
C7_RoundTrip ==
  pc = "idle" =>
    Hydrate(storage[storageKey(mode)], mode, now, InitialState) =
      [subjects |-> subjects, tasks |-> tasks,
       studySessions |-> Map(NormalizedTitle, studySessions)]

\* C7 (amended): with the collections at rest and saved, hydrating from the
\* stored text at any later time gives the collections back, field for
\* field, modulo blank-title normalization and without the completed tasks
\* whose completedAt is 24 hours or more old at the time of hydration.
C7_RoundTripModuloSweep ==
  pc = "idle" =>
    \A t \in {i \in Instants : i >= now} :
      Hydrate(storage[storageKey(mode)], mode, t, InitialState) =
        [subjects |-> subjects,
         tasks |-> SelectSeq(tasks, LAMBDA k :
                     ~(IsCompletedWithDate(k) /\ Age(k, t) >= 24 * HOUR_MS)),
         studySessions |-> Map(NormalizedTitle, studySessions)]

\* After a reload the hydration effect has rebuilt, from the text the
\* previous session saved, a completed task with its completedAt date and a
\* study session.
C7_Witness ==
  /\ pc = "mounted" /\ ops >= 2
  /\ \E k \in Range(pending.tasks) : k.completed = Bool(TRUE) /\ k.completedAt.kind = "Date"
  /\ pending.studySessions # <<>>
  /\ JSONstringify(pending) = storage[storageKey(mode)]

\* C8: with nothing under the storage key, hydration queues exactly the
\* mode's seed (demo: the demo dataset; app: default subjects, no tasks, no
\* sessions) and marks hydration complete.
C8_AbsentBlobSeeds ==
  (pc = "mounted" /\ storage[storageKey(mode)] = Null) =>
    /\ hydrated
    /\ pending =
         IF mode = "demo" THEN makeDefaultData(now)
         ELSE [subjects |-> defaultSubjects, tasks |-> <<>>, studySessions |-> <<>>]

\* App mode started on an empty storage key: the default subjects and
\* nothing else are queued.
C8_Witness ==
  /\ pc = "mounted" /\ mode = "app" /\ storage[storageKey(mode)] = Null
  /\ hydrated
  /\ pending.subjects = defaultSubjects /\ pending.tasks = <<>>

\* C9: a stored value whose load fails at any point leaves exactly the
\* mode's seed queued, with hydration marked complete.
C9_CorruptBlobFallsBack ==
  (pc = "mounted" /\ storage[storageKey(mode)] \in CorruptBlobs) =>
    /\ hydrated
    /\ pending =
         IF mode = "demo" THEN makeDefaultData(now)
         ELSE [subjects |-> defaultSubjects, tasks |-> <<>>, studySessions |-> <<>>]

\* The stored document has its own subjects and a tasks field that is not an
\* array: the load failed after setSubjects, and the subjects queued are the
\* defaults, not the stored ones.
C9_Witness ==
  /\ pc = "mounted" /\ hydrated
  /\ storage[storageKey(mode)] \in CorruptBlobs
  /\ storage[storageKey(mode)] # Garbage
  /\ storage[storageKey(mode)].json # Null
  /\ storage[storageKey(mode)].json.subjects = Arr(StoredSubjects)
  /\ storage[storageKey(mode)].json.tasks = Num(7)
  /\ pending.subjects = defaultSubjects

\* C10: when the document parses but lacks fields, each collection is
\* decided on its own: the stored one when present, else the default
\* subjects, no tasks, no sessions.
C10_IndependentDefaults ==
  (pc = "mounted" /\ storage[storageKey(mode)] \in PartialBlobs) =>
    LET doc == storage[storageKey(mode)].json IN
    /\ pending.subjects = IF doc.subjects = Undefined THEN defaultSubjects ELSE StoredSubjects
    /\ pending.tasks = IF doc.tasks = Undefined THEN <<>> ELSE StoredTasks
    /\ pending.studySessions = IF doc.studySessions = Undefined THEN <<>> ELSE StoredSessions

\* The stored document has tasks but neither subjects nor studySessions:
\* the tasks are loaded, the subjects default, the sessions are empty.
C10_Witness ==
  /\ pc = "mounted"
  /\ storage[storageKey(mode)] \in PartialBlobs
  /\ storage[storageKey(mode)].json.subjects = Undefined
  /\ storage[storageKey(mode)].json.studySessions = Undefined
  /\ pending = [subjects |-> defaultSubjects, tasks |-> StoredTasks, studySessions |-> <<>>]

\* the time value a stored date field parses to, when it does
IsParseableDate(v) == v.kind = "string" /\ "iso" \in DOMAIN v /\ v.iso # NaN

\* C11: on load a dueDate or date that is missing or unparseable in the
\* stored document becomes the current time, a stored date becomes the Date
\* of that time, and every task and session of the document is loaded (no
\* fall back to the seed).
C11_DatesDefaultToNow ==
  (pc = "mounted" /\ storage[storageKey(mode)] \in DateDefectBlobs) =>
    LET doc == storage[storageKey(mode)].json IN
    /\ pending.subjects = doc.subjects.items
    /\ Len(pending.tasks) = Len(doc.tasks.items)
    /\ Len(pending.studySessions) = Len(doc.studySessions.items)
    /\ \A i \in DOMAIN pending.tasks :
         /\ pending.tasks[i].id = doc.tasks.items[i].id
         /\ pending.tasks[i].dueDate =
              IF IsParseableDate(doc.tasks.items[i].dueDate)
              THEN DateOf(doc.tasks.items[i].dueDate.iso) ELSE DateOf(now)
    /\ \A i \in DOMAIN pending.studySessions :
         /\ pending.studySessions[i].id = doc.studySessions.items[i].id
         /\ pending.studySessions[i].date =
              IF IsParseableDate(doc.studySessions.items[i].date)
              THEN DateOf(doc.studySessions.items[i].date.iso) ELSE DateOf(now)

\* C12: no StudySession in the store has a missing, empty or
\* whitespace-only title.
C12_NoBlankTitleInStore ==
  \A x \in Range(studySessions) : x.title # Undefined /\ Trim(x.title.chars) # <<>>

\* ids of a collection are pairwise distinct
DistinctIds(seq) == \A i, j \in DOMAIN seq : i # j => seq[i].id # seq[j].id

\* C14: within each collection all ids are pairwise distinct, whatever the
\* clock read when the entities were created.
C14_UniqueIds ==
  DistinctIds(subjects) /\ DistinctIds(tasks) /\ DistinctIds(studySessions)

\* C16: whenever no operation is pending (the effects of the last event have
\* run), the text under the storage key is the serialization of the
\* collections in memory.
C16_PersistedAtRest ==
  (pc = "idle" /\ hydrated) => storage[storageKey(mode)] = JSONstringify(State)

\* Two events were handled after the demo data was loaded, a task was added
\* and is in the stored text.
C16_Witness ==
  /\ pc = "idle" /\ ops = 2 /\ mode = "demo"
  /\ Len(tasks) = 5
  /\ Len(storage[storageKey(mode)].json.tasks.items) = 5
  /\ storage[storageKey(mode)].json.tasks.items[5].id = tasks[5].id

\* a stored title that is missing, empty or made of white space only
IsBlankTitle(t) == Nullish(t) \/ Trim(t.chars) = <<>>

\* C13 (as claimed): on load a session whose stored title is blank gets the
\* placeholder title, and a session with a non-blank stored title keeps
\* exactly that title.
C13_LoadKeepsNonBlankTitle ==
  (pc = "mounted" /\ storage[storageKey(mode)] \in TitleBlobs) =>
    LET items == storage[storageKey(mode)].json.studySessions.items IN
    /\ Len(pending.studySessions) = Len(items)
    /\ \A i \in DOMAIN items :
         pending.studySessions[i].title =
           IF IsBlankTitle(items[i].title) THEN Chars(PLACEHOLDER_TITLE) ELSE items[i].title

\* C13 (amended): on load a session whose stored title is blank gets the
\* placeholder title, and a session with a non-blank stored title keeps
\* that title without its leading and trailing white space.
C13_LoadTrimsNonBlankTitle ==
  (pc = "mounted" /\ storage[storageKey(mode)] \in TitleBlobs) =>
    LET items == storage[storageKey(mode)].json.studySessions.items IN
    /\ Len(pending.studySessions) = Len(items)
    /\ \A i \in DOMAIN items :
         pending.studySessions[i].title =
           IF IsBlankTitle(items[i].title) THEN Chars(PLACEHOLDER_TITLE)
           ELSE Chars(Trim(items[i].title.chars))

\* The stored document has a session titled with two spaces next to one
\* titled "R": the first was loaded as "Study session", the second as "R".
C13_Witness ==
  /\ pc = "mounted"
  /\ storage[storageKey(mode)] \in TitleBlobs
  /\ storage[storageKey(mode)].json.studySessions.items[1].title = Chars(<<" ", " ">>)
  /\ pending.studySessions[1].title = Chars(PLACEHOLDER_TITLE)
  /\ pending.studySessions[2].title = Chars(<<"R">>)

\* the key that belongs to the other mode
OtherKey(m) == IF m = "demo" THEN REAL_STORAGE_KEY ELSE DEMO_STORAGE_KEY

\* C15: an App in mode m reads, writes and removes only under the key of
\* mode m: the value under the other mode's key never changes, hydration
\* queues what the mode's own key holds, a write puts the serialized
\* collections under the mode's own key, and clearing empties that key.
C15_KeyIsolation ==
  [][/\ storage'[OtherKey(mode)] = storage[OtherKey(mode)]
     /\ (pc = "mount" /\ pc' = "mounted") =>
          pending' = Hydrate(storage[CHOOSE k \in StorageKeys : k # OtherKey(mode)],
                             mode, now, State)
     /\ (pc = "effects" /\ pc' = "idle") =>
          storage'[CHOOSE k \in StorageKeys : k # OtherKey(mode)] = JSONstringify(State)
     /\ (pc = "idle" /\ pc' = "effects" /\ lastOp'.op = "clearAllData") =>
          storage'[CHOOSE k \in StorageKeys : k # OtherKey(mode)] = Null]_vars

\* App mode has just cleared its data, after an earlier event was handled
\* and saved: its own key is empty and the demo key still holds the
\* dataset it held at the start.
C15_Witness ==
  /\ mode = "app" /\ pc = "effects" /\ lastOp.op = "clearAllData" /\ ops >= 2
  /\ storage[REAL_STORAGE_KEY] = Null
  /\ storage[DEMO_STORAGE_KEY] = JSONstringify(StoredState)

\* C17: when a write to localStorage fails in a persistence cycle (the
\* effect ran and the stored text is not the serialization of the
\* collections), the collections in memory are as they were and the
\* component goes on to accept the next operation.
C17_WriteFailureKeepsStore ==
  [][(/\ pc \in {"mounted", "effects"} /\ hydrated /\ pc' # pc
      /\ storage'[storageKey(mode)] # JSONstringify(State)) =>
       /\ subjects' = subjects /\ tasks' = tasks /\ studySessions' = studySessions
       /\ pc' = (IF pc = "mounted" THEN "render" ELSE "idle")]_vars

\* a task the sweep is to remove at the given clock reading
IsExpired(t, clock) ==
  IsCompletedWithDate(t) /\ (t.completedAt.time = NaN \/ Age(t, clock) >= 24 * HOUR_MS)

\* C18: at a fixed clock reading, sweeping the result of a sweep changes
\* nothing; a sweep returns a list with nothing expired unchanged; the
\* result is never longer than the input and holds only tasks of the input.
C18_SweepIdempotentMonotone ==
  [][/\ (pc = "swept" /\ pc' = "swept2") => tasks' = tasks
     /\ (pc = "sweep" /\ pc' = "swept") =>
          /\ Len(tasks') <= Len(tasks)
          /\ Range(tasks') \subseteq Range(tasks)
          /\ (\A t \in Range(tasks) : ~IsExpired(t, now)) => tasks' = tasks]_vars

\* Two tasks completed at time 0 were swept twice one millisecond past the
\* window: both went in the first sweep and the second found nothing.
C18_Witness ==
  /\ pc = "swept2" /\ lastOp = Op("sweep", "2")
  /\ now = AUTO_DELETE_COMPLETED_AFTER_MS + 1
  /\ tasks = <<>>

\* the integer nearest to num / den, halves upward
NearestInteger(num, den) == (2 * num + den) \div (2 * den)

\* C20: parseDurationToMinutes gives 90 for "1h 30m", 90 for "90 min", 135
\* for "2:15", 60 for "1h", 90 for "90", 0 for the empty text and for a text
\* without digits; the result is always an integer that is at least 0; and a
\* text holding an hour quantity with its unit and a minute quantity with
\* its unit gives hours * 60 + minutes (to the nearest integer).
C20_ParseRules ==
  pc = "parsed" =>
    LET d == pending.text
        r == pending.result.val
    IN
    /\ r \in Nat
    /\ (d = <<"1", "h", " ", "3", "0", "m">>) => r = 90
    /\ (d = <<"9", "0", " ", "m", "i", "n">>) => r = 90
    /\ (d = <<"2", ":", "1", "5">>) => r = 135
    /\ (d = <<"1", "h">>) => r = 60
    /\ (d = <<"9", "0">>) => r = 90
    /\ (\A k \in DOMAIN d : d[k] \notin Digits) => r = 0
    /\ (pending.form = "tokens") =>
         r = NearestInteger(pending.hours.num * 60 * pending.minutes.den
                              + pending.minutes.num * pending.hours.den,
                            pending.hours.den * pending.minutes.den)

IsAssessment(t) == t.type \in {"exam", "assignment"}

\* a session linked to a task that is gone or is not an exam or assignment
LinkedOutsideAssessments(x) ==
  /\ x.linkedTaskId # Undefined
  /\ ~\E t \in Range(tasks) : t.id = x.linkedTaskId.text /\ IsAssessment(t)

\* the session's day is one of the last range days before the clock's day
InSelectedRange(x) == x.date.time \div DAY_MS >= (now \div DAY_MS) - pending.range

\* the assessment totals hold exactly the exams and assignments with linked
\* sessions, each with the minutes of the sessions linked to it, and the
\* Tasks view shows the same minutes for them
AssessmentTotalsRight ==
  /\ \A id \in DOMAIN pending.minutesByAssessment :
       \E t \in Range(tasks) : t.id = id /\ IsAssessment(t)
  /\ \A i \in DOMAIN tasks :
       IsAssessment(tasks[i]) =>
         LET linked == SelectSeq(studySessions, LAMBDA x : x.linkedTaskId = Str(tasks[i].id)) IN
         /\ pending.studiedMins[i] = SumMinutes(linked)
         /\ IF linked = <<>> THEN tasks[i].id \notin DOMAIN pending.minutesByAssessment
            ELSE pending.minutesByAssessment[tasks[i].id] = SumMinutes(linked)

\* C19 (as claimed): the assessment totals count a session only for an
\* existing exam or assignment it is linked to, and every session linked to
\* a deleted task or to a homework or task typed one has its minutes in the
\* total of its subject.
C19_ExcludedCountedInSubject ==
  pc = "rollups" =>
    /\ AssessmentTotalsRight
    /\ \A x \in Range(studySessions) :
         LinkedOutsideAssessments(x) =>
           /\ x.subjectId \in DOMAIN pending.minutesBySubject
           /\ pending.minutesBySubject[x.subjectId] >=
                SumMinutes(SelectSeq(studySessions, LAMBDA y :
                  LinkedOutsideAssessments(y) /\ y.subjectId = x.subjectId))

\* C19 (amended): the assessment totals count a session only for an
\* existing exam or assignment it is linked to; the subject totals are the
\* minutes of the sessions dated within the selected range, whatever their
\* link, so a session linked to a deleted task or to a homework or task
\* typed one is counted for its subject when its date is in the range.
C19_ExcludedCountedInSubjectInRange ==
  pc = "rollups" =>
    /\ AssessmentTotalsRight
    /\ DOMAIN pending.minutesBySubject =
         {x.subjectId : x \in {y \in Range(studySessions) : InSelectedRange(y)}}
    /\ \A sid \in DOMAIN pending.minutesBySubject :
         pending.minutesBySubject[sid] =
           SumMinutes(SelectSeq(studySessions, LAMBDA y :
             InSelectedRange(y) /\ y.subjectId = sid))

\* "a1" is homework; of two sessions of subject "2" in the range, one is
\* linked to it and one to a deleted task: no assessment total, and the
\* subject total holds both sessions (two times 90 minutes).
C19_Witness ==
  /\ pc = "rollups"
  /\ Len(tasks) = 1 /\ tasks[1].type = "homework"
  /\ Len(studySessions) = 2
  /\ studySessions[1].linkedTaskId = Str("a1")
  /\ studySessions[2].linkedTaskId = Str("gone")
  /\ DOMAIN pending.minutesByAssessment = {}
  /\ pending.minutesBySubject = [sid \in {"2"} |-> 180]
  /\ pending.studiedMins[1] = 90

\* C21: for every number of minutes m from 0 up, parsing formatMinutes(m)
\* gives m back, and formatting that again gives the same text.
C21_FormatParseRoundTrip ==
  /\ (pc \in {"reparsed", "reformatted"}) => pending.parsed = Num(pending.minutes)
  /\ (pc = "reformatted") => pending.again = pending.text

\* 90 minutes were written "1h 30m", read back as 90 and written "1h 30m"
\* again.
C21_Witness ==
  /\ pc = "reformatted"
  /\ pending.minutes = 90
  /\ pending.text = <<"1", "h", " ", "3", "0", "m">>
  /\ pending.parsed = Num(90)
  /\ pending.again = pending.text

\* C22: just after clear all data, app mode has no subjects, no tasks and no
\* study sessions, demo mode has exactly the sample data, and the text
\* stored before the clear is gone from the storage key.
C22_ClearLeavesPromisedState ==
  (pc = "effects" /\ lastOp.op = "clearAllData") =>
    /\ storage[storageKey(mode)] = Null
    /\ IF mode = "app"
       THEN subjects = <<>> /\ tasks = <<>> /\ studySessions = <<>>
       ELSE State = makeDefaultData(now)

\* C24: nothing is written or removed under a storage key while the
\* hydrated flag is false, and the flag only becomes true in the step of
\* the hydration effect, which reads the mode's key.
C24_HydrationBarrier ==
  [][/\ (~hydrated) => storage' = storage
     /\ (~hydrated /\ hydrated') =>
          /\ pc = "mount" /\ pc' = "mounted"
          /\ pending' = Hydrate(storage[storageKey(mode)], mode, now, State)]_vars

\* The component has mounted on an empty key and its first write is done:
\* the flag is set and the key holds a serialization.
C24_Witness ==
  /\ pc = "render" /\ ops = 0 /\ hydrated
  /\ storage[storageKey(mode)] = JSONstringify(State)

\* C29: when the storage key holds a text that loads, the first write of the
\* persistence effect after startup puts the serialization of the hydrated
\* collections under the key, never that of the initial state.
C29_FirstWriteIsHydrated ==
  [][(/\ pc = "mounted" /\ pc' = "render"
      /\ storage[storageKey(mode)] \notin ({Null} \cup CorruptBlobs)) =>
       storage'[storageKey(mode)] = JSONstringify(pending)]_vars

\* the deleted entity is gone from st while one of its dependents is still there
PartialCascade(st, op) ==
  \/ /\ op.op = "deleteSubject"
     /\ op.id \notin Ids(st.subjects)
     /\ \/ \E t \in Range(st.tasks) : t.subjectId = op.id
        \/ \E x \in Range(st.studySessions) : x.subjectId = op.id
  \/ /\ op.op = "deleteTask"
     /\ op.id \notin Ids(st.tasks)
     /\ \E x \in Range(st.studySessions) : x.linkedTaskId = Str(op.id)

\* C23: a cascade is one step. The render that follows deleteSubject or
\* deleteTask shows the whole cascade and nothing is written during the
\* handler; the persistence write that follows stores that whole state: no
\* render and no write sees the entity gone with a dependent left.
C23_CascadeAtomic ==
  [][/\ (pc = "idle" /\ pc' = "effects" /\ lastOp'.op \in {"deleteSubject", "deleteTask"}) =>
          /\ ~PartialCascade(State', lastOp')
          /\ storage' = storage
     /\ (pc = "effects" /\ pc' = "idle" /\ lastOp.op \in {"deleteSubject", "deleteTask"}) =>
          /\ ~PartialCascade(State, lastOp)
          /\ storage'[storageKey(mode)] = JSONstringify(State)
          /\ State' = State]_vars

\* Subject "1" of the demo data was deleted and the write that followed is
\* done: the stored document is the state without the subject, its task t3
\* and its session ss1.
C23_Witness ==
  /\ mode = "demo" /\ ops = 1 /\ pc = "idle"
  /\ "1" \notin Ids(subjects) /\ "t3" \notin Ids(tasks) /\ studySessions = <<>>
  /\ storage[storageKey(mode)] = JSONstringify(State)

\* C25: updateSubject, deleteSubject, updateTask, deleteTask,
\* toggleTaskCompleted, updateStudySession, deleteStudySession and
\* toggleSessionCompleted, called with an id that no entity carries, leave
\* subjects, tasks and study sessions as they were.
C25_UnknownIdIsNoOp ==
  [][(pc = "idle" /\ pc' = "effects" /\ lastOp'.id = NoSuchId) =>
       /\ lastOp'.op \in {"updateSubject", "deleteSubject", "updateTask", "deleteTask",
                          "toggleTaskCompleted", "updateStudySession",
                          "deleteStudySession", "toggleSessionCompleted"}
       /\ subjects' = subjects /\ tasks' = tasks /\ studySessions' = studySessions]_vars

\* updateTask has just been called on the demo data with an id of no task:
\* the four tasks and the session are as seeded.
C25_Witness ==
  /\ mode = "demo" /\ ops = 1 /\ pc = "effects"
  /\ lastOp = Op("updateTask", NoSuchId)
  /\ State = makeDefaultData(0)

\* C27: every study session whose linkedTaskId is set references a task
\* that is in the tasks collection.
C27_NoDanglingLinks ==
  \A x \in Range(studySessions) :
    x.linkedTaskId.kind = "string" => x.linkedTaskId.text \in Ids(tasks)

\* C28: every task and every study session has the subjectId of a subject
\* that is in the subjects collection.
C28_SubjectIdsResolve ==
  /\ \A t \in Range(tasks) : t.subjectId \in Ids(subjects)
  /\ \A x \in Range(studySessions) : x.subjectId \in Ids(subjects)

\* A subject added in the session has just been deleted again, after one
\* more operation, next to demo data whose tasks and session still resolve.
C28_Witness ==
  /\ mode = "demo" /\ pc = "effects" /\ ops = 3
  /\ lastOp = Op("deleteSubject", NewId(0))
  /\ Len(tasks) = 4 /\ Len(studySessions) = 1

\* C30: an updateTask from an edit form keeps the task's id, completed and
\* completedAt and changes no other task and no study session.
C30_EditKeepsCompletion ==
  [][(pc = "idle" /\ pc' = "effects" /\ lastOp'.op = "updateTask") =>
       /\ Len(tasks') = Len(tasks)
       /\ \A i \in DOMAIN tasks :
            IF tasks[i].id = lastOp'.id
            THEN /\ tasks'[i].id = tasks[i].id
                 /\ tasks'[i].completed = tasks[i].completed
                 /\ tasks'[i].completedAt = tasks[i].completedAt
            ELSE tasks'[i] = tasks[i]
       /\ studySessions' = studySessions]_vars

\* the tasks the upcoming list is drawn from: all of them, or the exams and
\* assignments only
Candidates(assessmentsOnly) ==
  {t \in Range(tasks) :
     /\ t.dueDate.time >= now
     /\ assessmentsOnly => t.type \in {"exam", "assignment"}}

\* list is the limit earliest candidates in ascending dueDate order
IsEarliest(list, candidates, limit) ==
  /\ \A i \in DOMAIN list : list[i] \in candidates
  /\ \A i, j \in DOMAIN list : i < j => /\ list[i].dueDate.time <= list[j].dueDate.time
                                         /\ list[i] # list[j]
  /\ Len(list) = IF Cardinality(candidates) < limit THEN Cardinality(candidates) ELSE limit
  /\ \A t \in candidates \ Range(list) :
       \A i \in DOMAIN list : list[i].dueDate.time <= t.dueDate.time

\* C26 (as stated): the upcoming list holds exactly the tasks with dueDate at
\* or after now, ascending by dueDate, cut to the first five, whatever their
\* type.
C26_UpcomingOfAnyType ==
  (pc = "listed") => IsEarliest(pending.upcoming, Candidates(FALSE), 5)

\* C26 (amended): the upcoming list holds exactly the exams and assignments
\* with dueDate at or after now, ascending by dueDate, cut to the first
\* five; no task of another type and no task due before now is in it, and
\* no exam or assignment among the five earliest is left out.
C26_UpcomingAssessments ==
  (pc = "listed") => IsEarliest(pending.upcoming, Candidates(TRUE), 5)

\* Six exams and assignments, all due at or after now and not in date order
\* in the collection: five are listed, the first of them due at now.
C26_Witness ==
  /\ pc = "listed" /\ Len(tasks) = 6
  /\ Cardinality(Candidates(TRUE)) = 6
  /\ tasks[1].dueDate.time > tasks[6].dueDate.time
  /\ Len(pending.upcoming) = 5
  /\ pending.upcoming[1].dueDate.time = now
  /\ pending.upcoming[1] # tasks[1]

====
